---- MODULE Spec2Model ----
(***************************************************************************)
(* A model of main.py: the sequential accept loop of TCPServer.start, the  *)
(* request parser HTTPRequest.parse and the handlers of HTTPServer.        *)
(*                                                                         *)
(* bytes values are sequences over 0..255, str values are sequences of     *)
(* Unicode code points.  The library functions the program calls           *)
(* (bytes.split, bytes.decode, str.encode, str.strip, urllib.parse.unquote,*)
(* int, os.path.splitext, pathlib, mimetypes.guess_type) are operators     *)
(* that compute what the library computes.                                 *)
(***************************************************************************)
EXTENDS Integers, Sequences, FiniteSets, TLC

(***************************************************************************)
(* Literals.  Printable[i] is the ASCII character with code 31 + i.        *)
(***************************************************************************)
Printable ==
  << " ", "!", "dquote", "#", "$", "%", "&", "'", "(", ")", "*", "+", ",", "-", ".", "/",
     "0", "1", "2", "3", "4", "5", "6", "7", "8", "9", ":", ";", "<", "=", ">", "?",
     "@", "A", "B", "C", "D", "E", "F", "G", "H", "I", "J", "K", "L", "M", "N", "O",
     "P", "Q", "R", "S", "T", "U", "V", "W", "X", "Y", "Z", "[", "backslash", "]", "^", "_",
     "backtick", "a", "b", "c", "d", "e", "f", "g", "h", "i", "j", "k", "l", "m", "n", "o",
     "p", "q", "r", "s", "t", "u", "v", "w", "x", "y", "z", "{", "|", "}", "~" >>

Ord == [c \in {Printable[i] : i \in DOMAIN Printable} |->
          31 + (CHOOSE i \in DOMAIN Printable : Printable[i] = c)]

\* the text of a literal, given as the tuple of its characters
S(t) == [i \in DOMAIN t |-> Ord[t[i]]]

CRLF == <<13, 10>>
SP == <<32>>

\* the None of Python, distinct from every str and bytes value
None == <<-1>>

Min(set) == CHOOSE m \in set : \A n \in set : m <= n

(***************************************************************************)
(* bytes.split, bytes.join, str.strip                                      *)
(***************************************************************************)
\* index of the first occurrence of sub in s, 0 when there is none
Find(s, sub) ==
  LET at == {j \in 1..(Len(s) - Len(sub) + 1) : SubSeq(s, j, j + Len(sub) - 1) = sub}
  IN  IF at = {} THEN 0 ELSE Min(at)

RECURSIVE bytes_split(_, _)
\* s cut at the occurrence of sep at index j, the rest split again
split_at(s, sep, j) ==
  IF j = 0 THEN <<s>>
  ELSE <<SubSeq(s, 1, j - 1)>> \o bytes_split(SubSeq(s, j + Len(sep), Len(s)), sep)
bytes_split(s, sep) == split_at(s, sep, Find(s, sep))

\* s.split(sep, 1)
split1_at(s, sep, j) ==
  IF j = 0 THEN <<s>>
  ELSE <<SubSeq(s, 1, j - 1), SubSeq(s, j + Len(sep), Len(s))>>
\* a split at every occurrence of sep
bytes_split_every(s, sep) == bytes_split(s, sep)

bytes_split1(s, sep) == split1_at(s, sep, Find(s, sep))

RECURSIVE bytes_join(_, _)
bytes_join(sep, list) ==
  IF list = <<>> THEN <<>>
  ELSE IF Len(list) = 1 THEN list[1]
  ELSE list[1] \o sep \o bytes_join(sep, Tail(list))

\* s.strip(chars): every leading and every trailing character of the set goes
str_strip(s, chars) ==
  LET keep == {i \in DOMAIN s : s[i] \notin chars}
  IN  IF keep = {} THEN <<>>
      ELSE SubSeq(s, Min(keep), CHOOSE m \in keep : \A n \in keep : n <= m)

\* s[:n] of Python, n of either sign
slice_to(s, n) ==
  IF n >= 0 THEN SubSeq(s, 1, IF n < Len(s) THEN n ELSE Len(s))
  ELSE SubSeq(s, 1, Len(s) + n)

(***************************************************************************)
(* UTF-8: bytes.decode() (strict), bytes.decode(errors='replace') and      *)
(* str.encode()                                                            *)
(***************************************************************************)
IsCont(b, i, lo, hi) == i <= Len(b) /\ b[i] >= lo /\ b[i] <= hi

\* the number of continuation bytes the lead byte b1 asks for, -1 for a byte
\* that cannot start a character
utf8_need(b1) ==
  IF b1 < 128 THEN 0
  ELSE IF b1 >= 194 /\ b1 <= 223 THEN 1
  ELSE IF b1 >= 224 /\ b1 <= 239 THEN 2
  ELSE IF b1 >= 240 /\ b1 <= 244 THEN 3
  ELSE -1

\* the range of the second byte after the lead byte b1
second_lo(b1) == IF b1 = 224 THEN 160 ELSE IF b1 = 240 THEN 144 ELSE 128
second_hi(b1) == IF b1 = 237 THEN 159 ELSE IF b1 = 244 THEN 143 ELSE 191

\* how many of the need continuation bytes follow b[i]
utf8_conts(b, i, need) ==
  IF need >= 1 /\ IsCont(b, i + 1, second_lo(b[i]), second_hi(b[i]))
  THEN IF need >= 2 /\ IsCont(b, i + 2, 128, 191)
       THEN IF need >= 3 /\ IsCont(b, i + 3, 128, 191) THEN 3 ELSE 2
       ELSE 1
  ELSE 0

utf8_code_point(b, i, need) ==
  IF need = 0 THEN b[i]
  ELSE IF need = 1 THEN (b[i] - 192) * 64 + (b[i + 1] - 128)
  ELSE IF need = 2 THEN (b[i] - 224) * 4096 + (b[i + 1] - 128) * 64 + (b[i + 2] - 128)
  ELSE (b[i] - 240) * 262144 + (b[i + 1] - 128) * 4096
       + (b[i + 2] - 128) * 64 + (b[i + 3] - 128)

\* the character that starts at b[i]: n bytes long with code point cp, or
\* n = 0 and bad = the length of the maximal invalid subpart
utf8_char(b, i, need, conts) ==
  IF need >= 0 /\ conts = need
  THEN [n |-> need + 1, cp |-> utf8_code_point(b, i, need), bad |-> 0]
  ELSE [n |-> 0, cp |-> 0, bad |-> 1 + conts]

utf8_at(b, i) == utf8_char(b, i, utf8_need(b[i]), utf8_conts(b, i, utf8_need(b[i])))

RECURSIVE utf8_valid(_, _)
utf8_valid_after(b, i, c) == c.n > 0 /\ utf8_valid(b, i + c.n)
utf8_valid(b, i) == IF i > Len(b) THEN TRUE ELSE utf8_valid_after(b, i, utf8_at(b, i))

RECURSIVE utf8_chars(_, _)
utf8_chars_after(b, i, c) ==
  IF c.n > 0 THEN <<c.cp>> \o utf8_chars(b, i + c.n)
  ELSE <<65533>> \o utf8_chars(b, i + c.bad)
\* the code points of b from index i on, U+FFFD for each invalid subpart
utf8_chars(b, i) == IF i > Len(b) THEN <<>> ELSE utf8_chars_after(b, i, utf8_at(b, i))

\* b.decode(): the str, or UnicodeDecodeError
bytes_decode(b) ==
  IF utf8_valid(b, 1) THEN [exc |-> "", val |-> utf8_chars(b, 1)]
  ELSE [exc |-> "UnicodeDecodeError", val |-> <<>>]

decode_replace(b) == utf8_chars(b, 1)

encode_char(cp) ==
  IF cp < 128 THEN <<cp>>
  ELSE IF cp < 2048 THEN <<192 + (cp \div 64), 128 + (cp % 64)>>
  ELSE IF cp < 65536 THEN
    <<224 + (cp \div 4096), 128 + ((cp \div 64) % 64), 128 + (cp % 64)>>
  ELSE <<240 + (cp \div 262144), 128 + ((cp \div 4096) % 64),
         128 + ((cp \div 64) % 64), 128 + (cp % 64)>>

RECURSIVE str_encode(_)
str_encode(s) == IF s = <<>> THEN <<>> ELSE encode_char(Head(s)) \o str_encode(Tail(s))

(***************************************************************************)
(* urllib.parse.unquote                                                    *)
(***************************************************************************)
IsHex(c) == (c >= 48 /\ c <= 57) \/ (c >= 65 /\ c <= 70) \/ (c >= 97 /\ c <= 102)
HexVal(c) == IF c <= 57 THEN c - 48 ELSE IF c <= 70 THEN c - 55 ELSE c - 87

RECURSIVE unquote_to_bytes(_)
\* of an ASCII str: %XX becomes the byte XX, a '%' without two hex digits stays
unquote_to_bytes(s) ==
  IF s = <<>> THEN <<>>
  ELSE IF s[1] = 37 /\ Len(s) >= 3 /\ IsHex(s[2]) /\ IsHex(s[3])
    THEN <<16 * HexVal(s[2]) + HexVal(s[3])>> \o unquote_to_bytes(SubSeq(s, 4, Len(s)))
  ELSE <<s[1]>> \o unquote_to_bytes(Tail(s))

\* length of the longest prefix of s whose characters are all ASCII (asc) or
\* all non-ASCII (~asc)
RunLen(s, asc) ==
  LET stop == {i \in DOMAIN s : (s[i] < 128) # asc}
  IN  IF stop = {} THEN Len(s) ELSE Min(stop) - 1

RECURSIVE unquote_runs(_)
\* the first n characters of s are one run: an ASCII run is unquoted and
\* decoded, any other run is kept
unquote_run(s, n) ==
  (IF s[1] < 128 THEN decode_replace(unquote_to_bytes(SubSeq(s, 1, n))) ELSE SubSeq(s, 1, n))
  \o unquote_runs(SubSeq(s, n + 1, Len(s)))
unquote_runs(s) == IF s = <<>> THEN <<>> ELSE unquote_run(s, RunLen(s, s[1] < 128))

unquote(s) == IF \A i \in DOMAIN s : s[i] # 37 THEN s ELSE unquote_runs(s)

(***************************************************************************)
(* int(str) and '%s' % int                                                 *)
(***************************************************************************)
Whitespace == {9, 10, 11, 12, 13, 28, 29, 30, 31, 32, 133, 160}
IsDigit(c) == c >= 48 /\ c <= 57

RECURSIVE DigitsValue(_, _)
DigitsValue(s, acc) ==
  IF s = <<>> THEN acc
  ELSE IF Head(s) = 95 THEN DigitsValue(Tail(s), acc)
  ELSE DigitsValue(Tail(s), 10 * acc + (Head(s) - 48))

\* int(s) for a str s: surrounding whitespace, one optional sign, decimal
\* digits with single underscores between them; anything else is ValueError
IsNumeral(d) ==
  /\ d # <<>>
  /\ \A i \in DOMAIN d : IsDigit(d[i]) \/ d[i] = 95
  /\ IsDigit(d[1]) /\ IsDigit(d[Len(d)])
  /\ \A i \in 1..(Len(d) - 1) : ~(d[i] = 95 /\ d[i + 1] = 95)

\* the value of the numeral d, negated or not
int_of(negative, d) ==
  IF ~IsNumeral(d) THEN [exc |-> "ValueError", val |-> 0]
  ELSE [exc |-> "", val |-> IF negative THEN 0 - DigitsValue(d, 0) ELSE DigitsValue(d, 0)]

\* t is s without its surrounding whitespace
int_stripped(t) ==
  IF t # <<>> /\ t[1] \in {43, 45} THEN int_of(t[1] = 45, Tail(t)) ELSE int_of(FALSE, t)

py_int(s) == int_stripped(str_strip(s, Whitespace))

RECURSIVE int_str(_)
\* '%s' % n for n >= 0
int_str(n) == IF n < 10 THEN <<48 + n>> ELSE int_str(n \div 10) \o <<48 + (n % 10)>>

(***************************************************************************)
(* os.path.splitext, pathlib.PurePosixPath, mimetypes                      *)
(***************************************************************************)
\* s.rfind(c), counted from 1, 0 when c does not occur
rfind(s, c) ==
  LET at == {i \in DOMAIN s : s[i] = c}
  IN  IF at = {} THEN 0 ELSE CHOOSE m \in at : \A n \in at : n <= m

\* os.path.splitext(p)[1]: from the last dot of the last component on, unless
\* only dots precede that dot in the component
splitext_ext(p) ==
  LET sepIndex == rfind(p, 47)
      dotIndex == rfind(p, 46)
  IN  IF dotIndex > sepIndex /\ \E k \in (sepIndex + 1)..(dotIndex - 1) : p[k] # 46
      THEN SubSeq(p, dotIndex, Len(p))
      ELSE <<>>

\* the parts pathlib keeps of a path string: no empty and no '.' component,
\* '..' components stay
path_parts(s) ==
  SelectSeq(bytes_split(s, <<47>>), LAMBDA c : c # <<>> /\ c # <<46>>)

\* number of slashes of the root of a POSIX path string: 0 relative, 2 for
\* exactly two leading slashes, 1 otherwise
path_root(s) ==
  IF s = <<>> \/ s[1] # 47 THEN 0
  ELSE IF Len(s) >= 2 /\ s[2] = 47 /\ ~(Len(s) >= 3 /\ s[3] = 47) THEN 2
  ELSE 1

\* base / name: an absolute name replaces the base
path_join(base, name) ==
  IF path_root(name) > 0 THEN [root |-> path_root(name), parts |-> path_parts(name)]
  ELSE [root |-> base.root, parts |-> base.parts \o path_parts(name)]

\* PurePath.is_relative_to: a comparison of the parts, nothing is resolved
is_relative_to(p, other) ==
  /\ p.root = other.root
  /\ Len(other.parts) <= Len(p.parts)
  /\ SubSeq(p.parts, 1, Len(other.parts)) = other.parts

\* mimetypes.guess_type(name)[0] for the extensions the server lets through
types_map ==
  << <<S(<<".", "h", "t", "m", "l">>), S(<<"t", "e", "x", "t", "/", "h", "t", "m", "l">>)>>,
     <<S(<<".", "c", "s", "s">>), S(<<"t", "e", "x", "t", "/", "c", "s", "s">>)>>,
     <<S(<<".", "j", "s">>), S(<<"t", "e", "x", "t", "/", "j", "a", "v", "a", "s", "c", "r", "i", "p", "t">>)>>,
     <<S(<<".", "j", "p", "g">>), S(<<"i", "m", "a", "g", "e", "/", "j", "p", "e", "g">>)>>,
     <<S(<<".", "j", "p", "e", "g">>), S(<<"i", "m", "a", "g", "e", "/", "j", "p", "e", "g">>)>>,
     <<S(<<".", "p", "n", "g">>), S(<<"i", "m", "a", "g", "e", "/", "p", "n", "g">>)>>,
     <<S(<<".", "g", "i", "f">>), S(<<"i", "m", "a", "g", "e", "/", "g", "i", "f">>)>> >>

type_of(ext) ==
  IF \E i \in DOMAIN types_map : types_map[i][1] = ext
  THEN types_map[CHOOSE i \in DOMAIN types_map : types_map[i][1] = ext][2]
  ELSE None

guess_type(name) == type_of(splitext_ext(name))

(***************************************************************************)
(* The filesystem: a function from the absolute path of an entry (the      *)
(* sequence of its component names, <<>> is the root directory) to         *)
(* [kind, content].  The process runs in the directory cwd.                *)
(***************************************************************************)
cwd == <<S(<<"s", "r", "v">>)>>

ENOENT == <<None>>

RECURSIVE walk(_, _, _)
\* path resolution of the kernel from directory cur: '..' is the parent, every
\* component but the last has to be a directory
walk_to(files, nxt, parts) ==
  IF nxt # <<>> /\ nxt \notin DOMAIN files THEN ENOENT
  ELSE IF Len(parts) > 1 /\ nxt # <<>> /\ files[nxt].kind # "dir" THEN ENOENT
  ELSE walk(files, nxt, Tail(parts))
walk(files, cur, parts) ==
  IF parts = <<>> THEN cur
  ELSE IF Head(parts) = <<46, 46>>
    THEN walk_to(files, IF cur = <<>> THEN <<>> ELSE SubSeq(cur, 1, Len(cur) - 1), parts)
  ELSE walk_to(files, Append(cur, Head(parts)), parts)

resolve(files, p) == walk(files, IF p.root > 0 THEN <<>> ELSE cwd, p.parts)

\* Path.exists()
path_exists(files, p) == resolve(files, p) # ENOENT

\* the bytes stored at a resolved location, IsADirectoryError for a directory
read_at(files, at) ==
  IF at = <<>> \/ files[at].kind = "dir"
  THEN [exc |-> "IsADirectoryError", val |-> <<>>]
  ELSE [exc |-> "", val |-> files[at].content]

\* open('rb') and read() on a path: path_read returns the whole file;
\* path_read_chunk is a read that stops after the first 64 bytes
path_read_chunk(files, p) ==
  LET content == read_at(files, resolve(files, p))
  IN  [exc |-> content.exc,
       val |-> SubSeq(content.val, 1, IF Len(content.val) < 64 THEN Len(content.val) ELSE 64)]

path_read(files, p) == read_at(files, resolve(files, p))

(***************************************************************************)
(* HTTPServer: the class attributes                                        *)
(***************************************************************************)
\* headers: an insertion-ordered dict, as the sequence of its items
headers ==
  << <<S(<<"S", "e", "r", "v", "e", "r">>), S(<<"C", "r", "u", "d", "e", " ", "S", "e", "r", "v", "e", "r">>)>>,
     <<S(<<"C", "o", "n", "t", "e", "n", "t", "-", "T", "y", "p", "e">>), S(<<"t", "e", "x", "t", "/", "h", "t", "m", "l">>)>> >>

\* the table with the phrases of 403 and 404 exchanged
status_codes_exchanged ==
  (200 :> S(<<"O", "K">>)) @@ (404 :> S(<<"F", "o", "r", "b", "i", "d", "d", "e", "n">>)) @@
  (501 :> S(<<"N", "o", "t", " ", "I", "m", "p", "l", "e", "m", "e", "n", "t", "e", "d">>)) @@ (403 :> S(<<"N", "o", "t", " ", "F", "o", "u", "n", "d">>))

status_codes ==
  (200 :> S(<<"O", "K">>)) @@ (404 :> S(<<"N", "o", "t", " ", "F", "o", "u", "n", "d">>)) @@
  (501 :> S(<<"N", "o", "t", " ", "I", "m", "p", "l", "e", "m", "e", "n", "t", "e", "d">>)) @@ (403 :> S(<<"F", "o", "r", "b", "i", "d", "d", "e", "n">>))

allowed_files == {S(<<"i", "n", "d", "e", "x", ".", "h", "t", "m", "l">>), S(<<"h", "e", "l", "l", "o", ".", "h", "t", "m", "l">>), S(<<"h", "o", "m", "e", ".", "h", "t", "m", "l">>)}

allowed_extensions ==
  {S(<<".", "h", "t", "m", "l">>), S(<<".", "c", "s", "s">>), S(<<".", "j", "s">>), S(<<".", "j", "p", "g">>), S(<<".", "j", "p", "e", "g">>), S(<<".", "p", "n", "g">>), S(<<".", "g", "i", "f">>)}

base_directory == [root |-> 0, parts |-> <<S(<<"P", "u", "b", "l", "i", "c">>)>>]

\* the attributes of an HTTPServer object whose names start with 'handle_'
handler_attributes == {S(<<"h", "a", "n", "d", "l", "e", "_", "r", "e", "q", "u", "e", "s", "t">>), S(<<"h", "a", "n", "d", "l", "e", "_", "G", "E", "T">>), S(<<"h", "a", "n", "d", "l", "e", "_", "P", "O", "S", "T">>)}

(***************************************************************************)
(* HTTPServer.response_line, HTTPServer.response_headers                   *)
(***************************************************************************)
response_line(status_code) ==
  str_encode(S(<<"H", "T", "T", "P", "/", "1", ".", "1", " ">>) \o int_str(status_code) \o SP
             \o status_codes[status_code] \o CRLF)

\* d.update(items): the value of a key that is present is replaced in place,
\* a new key is appended
RECURSIVE dict_update(_, _)
dict_set(d, k, v) ==
  IF \E i \in DOMAIN d : d[i][1] = k
  THEN [i \in DOMAIN d |-> IF d[i][1] = k THEN <<k, v>> ELSE d[i]]
  ELSE Append(d, <<k, v>>)
dict_update(d, items) ==
  IF items = <<>> THEN d
  ELSE dict_update(dict_set(d, Head(items)[1], Head(items)[2]), Tail(items))

RECURSIVE format_headers(_)
format_headers(d) ==
  IF d = <<>> THEN <<>>
  ELSE Head(d)[1] \o S(<<":", " ">>) \o Head(d)[2] \o CRLF \o format_headers(Tail(d))

\* headers_copy = self.headers.copy() and headers_copy.update(extra_headers):
\* the dict that is formatted, and self.headers as the statements leave it.
\* headers_alias is the same without the copy.
\* extra_headers is a sequence of items, <<>> for None; values are already
\* the text '%s' gives them
headers_alias(self_headers, extra_headers) ==
  [copy |-> dict_update(self_headers, extra_headers),
   self |-> dict_update(self_headers, extra_headers)]

headers_copy(self_headers, extra_headers) ==
  [copy |-> IF extra_headers # <<>> THEN dict_update(self_headers, extra_headers)
            ELSE self_headers,
   self |-> self_headers]

\* the loop over headers_copy and headers.encode()
encode_headers(hc) == [bytes |-> str_encode(format_headers(hc.copy)), self |-> hc.self]

\* response_headers gives [bytes, self]: the bytes it returns and
\* self.headers after the call
response_headers(self_headers, extra_headers) ==
  encode_headers(headers_copy(self_headers, extra_headers))

(***************************************************************************)
(* HTTPRequest.parse                                                       *)
(***************************************************************************)
NoHeaders == [k \in {} |-> <<>>]

ParseRaises(e) ==
  [exc |-> e, method |-> None, uri |-> None, http_version |-> <<>>,
   headers |-> NoHeaders, body |-> <<>>]

HeadersRaise(e, h) == [exc |-> e, headers |-> h, body |-> <<>>]

RECURSIVE parse_headers(_, _, _)
\* self.headers[key.decode()] = value.decode(), then the next line
set_header(header_lines, i, h, key, value) ==
  IF value.exc # "" THEN HeadersRaise(value.exc, h)
  ELSE IF key.exc # "" THEN HeadersRaise(key.exc, h)
  ELSE parse_headers(header_lines, i + 1,
                     [k \in DOMAIN h \cup {key.val} |-> IF k = key.val THEN value.val ELSE h[k]])

\* key, value = line.split(b": ", 1)
split_header(header_lines, i, h, kv) ==
  IF Len(kv) < 2 THEN HeadersRaise("ValueError", h)
  ELSE set_header(header_lines, i, h, bytes_decode(kv[1]), bytes_decode(kv[2]))

\* the loop over header_lines from index i on, h the headers set so far
parse_headers(header_lines, i, h) ==
  IF i > Len(header_lines) THEN [exc |-> "", headers |-> h, body |-> <<>>]
  ELSE IF header_lines[i] = <<>>
    THEN [exc |-> "", headers |-> h,
          body |-> bytes_join(CRLF, SubSeq(header_lines, i + 1, Len(header_lines)))]
  ELSE split_header(header_lines, i, h, bytes_split1(header_lines[i], S(<<":", " ">>)))

\* the request once the request line and the header lines are read
parsed(method, uri, http_version, rest) ==
  IF method.exc # "" THEN ParseRaises(method.exc)
  ELSE IF uri.exc # "" THEN ParseRaises(uri.exc)
  ELSE IF rest.exc # "" THEN ParseRaises(rest.exc)
  ELSE [exc |-> "", method |-> method.val, uri |-> uri.val,
        http_version |-> http_version, headers |-> rest.headers, body |-> rest.body]

\* words are the words of the request line
parse_words(words, header_lines) ==
  parsed(bytes_decode(words[1]),
         IF Len(words) > 1 THEN bytes_decode(words[2]) ELSE [exc |-> "", val |-> None],
         IF Len(words) > 2 THEN words[3] ELSE S(<<"1", ".", "1">>),
         parse_headers(header_lines, 1, NoHeaders))

parse_lines(lines) == parse_words(bytes_split(lines[1], SP), Tail(lines))

\* HTTPRequest(data): the request, or the exception parse raises
parse(data) == parse_lines(bytes_split(data, CRLF))

(***************************************************************************)
(* HTTPServer: the handlers.  A handler gives [exc, response, headers,     *)
(* fs_calls]: the bytes it returns or the exception it raises,             *)
(* self.headers after the call, and the calls it made on the filesystem.   *)
(***************************************************************************)
Returns(bytes, self_headers, calls) ==
  [exc |-> "", response |-> bytes, headers |-> self_headers, fs_calls |-> calls]
Raises(e, self_headers, calls) ==
  [exc |-> e, response |-> <<>>, headers |-> self_headers, fs_calls |-> calls]

\* b"".join([response_line, response_headers, blank_line, response_body]),
\* rh being what response_headers gave
joined(line, rh, response_body, calls) ==
  Returns(line \o rh.bytes \o CRLF \o response_body, rh.self, calls)

HTTP_501_handler(request, self_headers) ==
  joined(response_line(501), response_headers(self_headers, <<>>),
         S(<<"<", "h", "1", ">", "5", "0", "1", " ", "N", "o", "t", " ", "I", "m", "p", "l", "e", "m", "e", "n", "t", "e", "d", "<", "/", "h", "1", ">">>), <<>>)

is_an_allowed_file(filename) ==
  \/ filename \in allowed_files
  \/ splitext_ext(filename) \in allowed_extensions

\* filename, with 'home.html' for the empty name
or_homepage_index(filename) == IF filename = <<>> THEN S(<<"i", "n", "d", "e", "x", ".", "h", "t", "m", "l">>) ELSE filename

or_homepage(filename) == IF filename = <<>> THEN S(<<"h", "o", "m", "e", ".", "h", "t", "m", "l">>) ELSE filename

\* the name handle_GET looks up: the URI without its leading and trailing
\* slashes, then percent-decoded, 'home.html' when that is empty
requested_name(uri) == or_homepage(unquote(str_strip(uri, {47})))

\* content_type = mimetypes.guess_type(filename)[0] or 'text/html'
content_type_of(guessed) == IF guessed = None THEN S(<<"t", "e", "x", "t", "/", "h", "t", "m", "l">>) ELSE guessed

\* the calls requested_path.exists() and requested_path.open('rb')
exists_call(requested_path) == <<"exists", requested_path>>
open_call(requested_path) == <<"open", requested_path>>

\* the 200 branch, file being what open and read gave; the header values are
\* the text '%s' gives them
serve_200(filename, file, self_headers, calls) ==
  IF file.exc # "" THEN Raises(file.exc, self_headers, calls)
  ELSE joined(response_line(200),
              response_headers(self_headers,
                               << <<S(<<"C", "o", "n", "t", "e", "n", "t", "-", "T", "y", "p", "e">>), content_type_of(guess_type(filename))>>,
                                  <<S(<<"C", "o", "n", "t", "e", "n", "t", "-", "L", "e", "n", "g", "t", "h">>), int_str(Len(file.val))>> >>),
              file.val, calls)

\* handle_GET from the containment check on
serve(filename, requested_path, files, self_headers) ==
  IF ~is_relative_to(requested_path, base_directory)
  THEN Returns(response_line(403), self_headers, <<>>)
  ELSE IF is_an_allowed_file(filename)
  THEN IF path_exists(files, requested_path)
       THEN serve_200(filename, path_read(files, requested_path), self_headers,
                      <<exists_call(requested_path), open_call(requested_path)>>)
       ELSE joined(response_line(404), response_headers(self_headers, <<>>),
                   S(<<"<", "h", "1", ">", "4", "0", "4", " ", "N", "o", "t", " ", "F", "o", "u", "n", "d", "<", "/", "h", "1", ">">>), <<exists_call(requested_path)>>)
  ELSE joined(response_line(403), response_headers(self_headers, <<>>),
              S(<<"<", "h", "1", ">", "4", "0", "3", " ", "F", "o", "r", "b", "i", "d", "d", "e", "n", "<", "/", "h", "1", ">">>), <<>>)

serve_name(filename, files, self_headers) ==
  serve(filename, path_join(base_directory, filename), files, self_headers)

handle_GET(request, files, self_headers) ==
  IF request.uri = None THEN Raises("AttributeError", self_headers, <<>>)
  ELSE serve_name(requested_name(request.uri), files, self_headers)

\* the echo of the decoded body
echo(body, self_headers) ==
  IF body.exc # "" THEN Raises(body.exc, self_headers, <<>>)
  ELSE joined(response_line(200), response_headers(self_headers, <<>>),
              str_encode(body.val), <<>>)

\* handle_POST once content_length is int(...)
post_body(request, content_length, self_headers) ==
  IF content_length.exc # "" THEN Raises(content_length.exc, self_headers, <<>>)
  ELSE echo(bytes_decode(slice_to(request.body, content_length.val)), self_headers)

handle_POST(request, self_headers) ==
  post_body(request,
            IF S(<<"C", "o", "n", "t", "e", "n", "t", "-", "L", "e", "n", "g", "t", "h">>) \in DOMAIN request.headers
            THEN py_int(request.headers[S(<<"C", "o", "n", "t", "e", "n", "t", "-", "L", "e", "n", "g", "t", "h">>)])
            ELSE [exc |-> "", val |-> 0],
            self_headers)

\* getattr(self, 'handle_%s' % request.method) and the call of the handler.
\* handle_request itself is among the attributes; called with the request as
\* data it raises AttributeError (an HTTPRequest has no split).
dispatch(request, name, files, self_headers) ==
  IF name \notin handler_attributes THEN HTTP_501_handler(request, self_headers)
  ELSE IF name = S(<<"h", "a", "n", "d", "l", "e", "_", "G", "E", "T">>) THEN handle_GET(request, files, self_headers)
  ELSE IF name = S(<<"h", "a", "n", "d", "l", "e", "_", "P", "O", "S", "T">>) THEN handle_POST(request, self_headers)
  ELSE Raises("AttributeError", self_headers, <<>>)

\* handle_request once the request is parsed
handle_parsed(request, files, self_headers) ==
  IF request.exc # "" THEN Raises(request.exc, self_headers, <<>>)
  ELSE dispatch(request, S(<<"h", "a", "n", "d", "l", "e", "_">>) \o request.method, files, self_headers)

\* HTTPServer.handle_request(data), self.headers being self_headers
handle_request(data, files, self_headers) ==
  handle_parsed(parse(data), files, self_headers)

(***************************************************************************)
(* The bytes a client delivers to one recv call                            *)
(***************************************************************************)
V11 == S(<<" ", "H", "T", "T", "P", "/", "1", ".", "1">>)

GetRequests ==
  { S(<<"G", "E", "T", " ", "/">>) \o V11 \o CRLF \o S(<<"H", "o", "s", "t", ":", " ", "x">>) \o CRLF \o CRLF,
    S(<<"G", "E", "T", " ", "/", "h", "o", "m", "e", ".", "h", "t", "m", "l">>) \o V11 \o CRLF \o CRLF,
    S(<<"G", "E", "T", " ", "/", "i", "n", "d", "e", "x", ".", "h", "t", "m", "l">>) \o V11 \o CRLF \o CRLF,
    S(<<"G", "E", "T", " ", "/", "a", ".", "e", "x", "e">>) \o V11 \o CRLF \o CRLF,
    S(<<"G", "E", "T", " ", "/", "b", ".", "h", "t", "m", "l">>) \o V11 \o CRLF \o CRLF,
    S(<<"G", "E", "T", " ", "/", "b", ".", "e", "x", "e">>) \o V11 \o CRLF \o CRLF,
    S(<<"G", "E", "T", " ", "/", "d", ".", "c", "s", "s">>) \o V11 \o CRLF \o CRLF,
    S(<<"G", "E", "T", " ", "/", "s", "u", "b", "/", "s", ".", "j", "s">>) \o V11 \o CRLF \o CRLF,
    S(<<"G", "E", "T", " ", "/", "b", "i", "g", ".", "p", "n", "g">>) \o V11 \o CRLF \o CRLF,
    S(<<"G", "E", "T", " ", "/", "s", "u", "b", "/", ".", ".", "/", "h", "o", "m", "e", ".", "h", "t", "m", "l">>) \o V11 \o CRLF \o CRLF,
    S(<<"G", "E", "T", " ", "/", "h", "o", "m", "e", ".", "h", "t", "m", "l", "/">>) \o V11 \o CRLF \o CRLF,
    S(<<"G", "E", "T", " ", "/", "/", "h", "o", "m", "e", ".", "h", "t", "m", "l">>) \o V11 \o CRLF \o CRLF,
    S(<<"G", "E", "T", " ", "/", "h", "o", "m", "e", ".", "h", "t", "m", "l", "%", "2", "F">>) \o V11 \o CRLF \o CRLF,
    S(<<"G", "E", "T", " ", "/", "%", "f", "f", ".", "h", "t", "m", "l">>) \o V11 \o CRLF \o CRLF,
    S(<<"G", "E", "T", " ">>) \o V11 \o CRLF \o CRLF,
    S(<<"G", "E", "T", " ", "/">>),
    S(<<"G", "E", "T", " ", "/", "h", "o", "m", "e", ".", "h", "t", "m", "l">>) \o V11 \o CRLF \o CRLF \o [i \in 1..1000 |-> 97],
    S(<<"G", "E", "T", " ", "/">>) \o V11 \o CRLF \o S(<<"X", ":", " ", "a", ":", " ", "b">>) \o CRLF \o S(<<"X", ":", " ", "c", ":", " ", "d">>) \o CRLF \o S(<<"K", ":", " ">>) \o <<195, 169>> \o CRLF \o CRLF \o S(<<"b", "o">>) \o CRLF \o CRLF \o S(<<"d", "y">>) \o CRLF }

TraversalRequests ==
  { S(<<"G", "E", "T", " ", "/", ".", ".", "/", "s", "e", "c", "r", "e", "t", ".", "h", "t", "m", "l">>) \o V11 \o CRLF \o CRLF,
    S(<<"G", "E", "T", " ", "/", "%", "2", "e", "%", "2", "e", "/", "s", "e", "c", "r", "e", "t", ".", "h", "t", "m", "l">>) \o V11 \o CRLF \o CRLF,
    S(<<"G", "E", "T", " ", "/", ".", ".", "/", "n", "o", "t", "h", "e", "r", "e", ".", "h", "t", "m", "l">>) \o V11 \o CRLF \o CRLF,
    S(<<"G", "E", "T", " ", "/", ".", ".", "/", "n", "o", "t", "e", "s", ".", "t", "x", "t">>) \o V11 \o CRLF \o CRLF,
    S(<<"G", "E", "T", " ", "/", ".", ".", "/", ".", ".", "/", "e", "t", "c", "/", "p", "a", "s", "s", "w", "d">>) \o V11 \o CRLF \o CRLF,
    S(<<"G", "E", "T", " ", "/", ".", ".", "/", ".", ".", "/", "e", "t", "c", "/", "x", ".", "h", "t", "m", "l">>) \o V11 \o CRLF \o CRLF,
    S(<<"G", "E", "T", " ", "/", ".", ".", "/", "P", "u", "b", "l", "i", "c", "/", "h", "o", "m", "e", ".", "h", "t", "m", "l">>) \o V11 \o CRLF \o CRLF,
    S(<<"G", "E", "T", " ", "/", "%", "2", "F", "e", "t", "c", "/", "x", ".", "h", "t", "m", "l">>) \o V11 \o CRLF \o CRLF,
    S(<<"G", "E", "T", " ", "/", "%", "2", "F", "e", "t", "c", "/", "p", "a", "s", "s", "w", "d">>) \o V11 \o CRLF \o CRLF,
    S(<<"G", "E", "T", " ", "/", "%", "2", "F", "s", "r", "v", "/", "P", "u", "b", "l", "i", "c", "/", "h", "o", "m", "e", ".", "h", "t", "m", "l">>) \o V11 \o CRLF \o CRLF }

PostRequests ==
  { S(<<"P", "O", "S", "T", " ", "/">>) \o V11 \o CRLF \o S(<<"C", "o", "n", "t", "e", "n", "t", "-", "L", "e", "n", "g", "t", "h", ":", " ", "5">>) \o CRLF \o CRLF \o S(<<"0", "1", "2", "3", "4", "5", "6", "7", "8", "9">>),
    S(<<"P", "O", "S", "T", " ", "/">>) \o V11 \o CRLF \o S(<<"C", "o", "n", "t", "e", "n", "t", "-", "L", "e", "n", "g", "t", "h", ":", " ", "0">>) \o CRLF \o CRLF \o S(<<"h", "e", "l", "l", "o">>),
    S(<<"P", "O", "S", "T", " ", "/">>) \o V11 \o CRLF \o S(<<"C", "o", "n", "t", "e", "n", "t", "-", "L", "e", "n", "g", "t", "h", ":", " ", "9">>) \o CRLF \o CRLF \o S(<<"a", "b">>),
    S(<<"P", "O", "S", "T", " ", "/">>) \o V11 \o CRLF \o S(<<"C", "o", "n", "t", "e", "n", "t", "-", "L", "e", "n", "g", "t", "h", ":", " ", "4">>) \o CRLF \o CRLF \o S(<<"a", "b">>) \o CRLF \o S(<<"c", "d">>),
    S(<<"P", "O", "S", "T", " ", "/">>) \o V11 \o CRLF \o S(<<"C", "o", "n", "t", "e", "n", "t", "-", "L", "e", "n", "g", "t", "h", ":", " ", "1", "_", "0">>) \o CRLF \o CRLF \o S(<<"0", "1", "2", "3", "4", "5", "6", "7", "8", "9", "a", "b">>),
    S(<<"P", "O", "S", "T", " ", "/">>) \o V11 \o CRLF \o S(<<"C", "o", "n", "t", "e", "n", "t", "-", "L", "e", "n", "g", "t", "h", ":", " ", " ", "+", "5", " ">>) \o CRLF \o CRLF \o S(<<"0", "1", "2", "3", "4", "5", "6", "7", "8", "9">>),
    S(<<"P", "O", "S", "T", " ", "/">>) \o V11 \o CRLF \o S(<<"C", "o", "n", "t", "e", "n", "t", "-", "L", "e", "n", "g", "t", "h", ":", " ", "5">>) \o CRLF \o S(<<"C", "o", "n", "t", "e", "n", "t", "-", "L", "e", "n", "g", "t", "h", ":", " ", "2">>) \o CRLF \o CRLF \o S(<<"0", "1", "2", "3", "4", "5", "6", "7", "8", "9">>),
    S(<<"P", "O", "S", "T", " ", "/">>) \o V11 \o CRLF \o S(<<"C", "o", "n", "t", "e", "n", "t", "-", "L", "e", "n", "g", "t", "h", ":", " ", "-", "1">>) \o CRLF \o CRLF \o S(<<"h", "e", "l", "l", "o">>),
    S(<<"P", "O", "S", "T", " ", "/">>) \o V11 \o CRLF \o CRLF \o S(<<"h", "e", "l", "l", "o">>),
    S(<<"P", "O", "S", "T", " ", "/">>) \o V11 \o CRLF \o S(<<"c", "o", "n", "t", "e", "n", "t", "-", "l", "e", "n", "g", "t", "h", ":", " ", "5">>) \o CRLF \o CRLF \o S(<<"h", "e", "l", "l", "o">>),
    S(<<"P", "O", "S", "T", " ", "/">>) \o V11 \o CRLF \o S(<<"C", "o", "n", "t", "e", "n", "t", "-", "L", "e", "n", "g", "t", "h", ":", " ", "5">>),
    S(<<"P", "O", "S", "T", " ", "/">>) \o V11 \o CRLF \o S(<<"C", "o", "n", "t", "e", "n", "t", "-", "L", "e", "n", "g", "t", "h", ":", " ", "a", "b", "c">>) \o CRLF \o CRLF \o S(<<"h", "e", "l", "l", "o">>),
    S(<<"P", "O", "S", "T", " ", "/">>) \o V11 \o CRLF \o S(<<"C", "o", "n", "t", "e", "n", "t", "-", "L", "e", "n", "g", "t", "h", ":", " ">>) \o CRLF \o CRLF \o S(<<"h", "e", "l", "l", "o">>),
    S(<<"P", "O", "S", "T", " ", "/">>) \o V11 \o CRLF \o S(<<"C", "o", "n", "t", "e", "n", "t", "-", "L", "e", "n", "g", "t", "h", ":", " ", "2">>) \o CRLF \o CRLF \o <<195, 169>>,
    S(<<"P", "O", "S", "T", " ", "/">>) \o V11 \o CRLF \o S(<<"C", "o", "n", "t", "e", "n", "t", "-", "L", "e", "n", "g", "t", "h", ":", " ", "1">>) \o CRLF \o CRLF \o <<195, 169>>,
    S(<<"P", "O", "S", "T", " ", "/">>) \o V11 \o CRLF \o S(<<"C", "o", "n", "t", "e", "n", "t", "-", "L", "e", "n", "g", "t", "h", ":", " ", "3">>) \o CRLF \o CRLF \o <<255, 254, 0>> }

OtherRequests ==
  { S(<<"P", "U", "T", " ", "/", "x">>) \o V11 \o CRLF \o CRLF,
    S(<<"D", "E", "L", "E", "T", "E", " ", "/", "h", "o", "m", "e", ".", "h", "t", "m", "l">>) \o V11 \o CRLF \o CRLF,
    S(<<"H", "E", "A", "D", " ", "/">>) \o V11 \o CRLF \o CRLF,
    S(<<"g", "e", "t", " ", "/">>) \o V11 \o CRLF \o CRLF,
    S(<<"H", "T", "T", "P", "_", "5", "0", "1", " ", "/">>) \o V11 \o CRLF \o CRLF,
    S(<<"r", "e", "q", "u", "e", "s", "t", " ", "/">>) \o V11 \o CRLF \o CRLF }

MalformedRequests ==
  { <<>>,
    CRLF \o CRLF,
    S(<<" ", "/">>) \o V11 \o CRLF \o CRLF,
    S(<<"G", "E", "T">>) \o CRLF \o CRLF,
    CRLF \o S(<<"G", "E", "T", " ", "/">>) \o V11 \o CRLF \o CRLF,
    <<255>> \o S(<<" ", "/">>) \o V11 \o CRLF \o CRLF,
    S(<<"G", "E", "T", " ", "/">>) \o <<255>> \o V11 \o CRLF \o CRLF,
    S(<<"G", "E", "T", " ", "/">>) \o V11 \o CRLF \o S(<<"H", "o", "s", "t">>) \o CRLF \o CRLF,
    S(<<"G", "E", "T", " ", "/">>) \o V11 \o CRLF \o S(<<"H", "o", "s">>),
    S(<<"G", "E", "T", " ", "/">>) \o V11 \o CRLF \o S(<<"H", "o", "s", "t", ":", " ", "x">>),
    S(<<"G", "E", "T", " ", "/">>) \o V11 \o CRLF,
    S(<<"G", "E", "T", " ", "/">>) \o V11,
    S(<<"G", "E", "T", " ", "/">>) \o V11 \o CRLF \o S(<<"X", ":", " ", "a", ":", " ", "b">>) \o CRLF \o S(<<"X", ":", " ">>) \o <<255>> \o CRLF \o CRLF,
    S(<<"P", "U", "T", " ", "/", "x">>) \o V11 \o CRLF \o S(<<"b", "a", "d">>) \o CRLF \o CRLF,
    S(<<"P", "O", "S", "T", " ", "/">>) \o V11 \o CRLF \o S(<<"C", "o", "n", "t", "e", "n", "t", "-", "L", "e", "n", "g", "t", "h", ":", "5">>) \o CRLF \o CRLF \o S(<<"h", "e", "l", "l", "o">>) }

Buffers ==
  GetRequests \cup TraversalRequests \cup PostRequests \cup OtherRequests \cup MalformedRequests

(***************************************************************************)
(* The filesystems the server is started on                                *)
(***************************************************************************)
Dir == [kind |-> "dir", content |-> <<>>]
File(bytes) == [kind |-> "file", content |-> bytes]

\* a name given with its slashes, as the sequence of its components
P(s) == path_parts(s)

BigContent == <<137, 80, 78, 71, 13, 10, 13, 10, 255, 0>> \o [i \in 1..95 |-> 31 + i]

SiteFiles ==
  (P(S(<<"/", "s", "r", "v">>)) :> Dir) @@
  (P(S(<<"/", "s", "r", "v", "/", "P", "u", "b", "l", "i", "c">>)) :> Dir) @@
  (P(S(<<"/", "s", "r", "v", "/", "P", "u", "b", "l", "i", "c", "/", "h", "o", "m", "e", ".", "h", "t", "m", "l">>)) :> File(S(<<"<", "h", "1", ">", "h", "o", "m", "e", " ", "p", "a", "g", "e", "<", "/", "h", "1", ">">>))) @@
  (P(S(<<"/", "s", "r", "v", "/", "P", "u", "b", "l", "i", "c", "/", "a", ".", "e", "x", "e">>)) :> File(S(<<"M", "Z">>))) @@
  (P(S(<<"/", "s", "r", "v", "/", "P", "u", "b", "l", "i", "c", "/", "d", ".", "c", "s", "s">>)) :> Dir) @@
  (P(S(<<"/", "s", "r", "v", "/", "P", "u", "b", "l", "i", "c", "/", "s", "u", "b">>)) :> Dir) @@
  (P(S(<<"/", "s", "r", "v", "/", "P", "u", "b", "l", "i", "c", "/", "s", "u", "b", "/", "s", ".", "j", "s">>)) :> File(S(<<"s">>))) @@
  (P(S(<<"/", "s", "r", "v", "/", "P", "u", "b", "l", "i", "c", "/", "b", "i", "g", ".", "p", "n", "g">>)) :> File(BigContent)) @@
  (P(S(<<"/", "s", "r", "v", "/", "s", "e", "c", "r", "e", "t", ".", "h", "t", "m", "l">>)) :> File(S(<<"S", "E", "C", "R", "E", "T">>))) @@
  (P(S(<<"/", "s", "r", "v", "/", "n", "o", "t", "e", "s", ".", "t", "x", "t">>)) :> File(S(<<"n">>))) @@
  (P(S(<<"/", "e", "t", "c">>)) :> Dir) @@
  (P(S(<<"/", "e", "t", "c", "/", "x", ".", "h", "t", "m", "l">>)) :> File(S(<<"r", "o", "o", "t">>))) @@
  (P(S(<<"/", "e", "t", "c", "/", "p", "a", "s", "s", "w", "d">>)) :> File(S(<<"r", ":", "0">>)))

EmptyFiles ==
  (P(S(<<"/", "s", "r", "v">>)) :> Dir) @@
  (P(S(<<"/", "s", "r", "v", "/", "P", "u", "b", "l", "i", "c">>)) :> Dir) @@
  (P(S(<<"/", "e", "t", "c">>)) :> Dir)

OddFiles ==
  (P(S(<<"/", "s", "r", "v">>)) :> Dir) @@
  (P(S(<<"/", "s", "r", "v", "/", "P", "u", "b", "l", "i", "c">>)) :> Dir) @@
  (P(S(<<"/", "s", "r", "v", "/", "P", "u", "b", "l", "i", "c", "/", "h", "o", "m", "e", ".", "h", "t", "m", "l">>)) :> Dir) @@
  (P(S(<<"/", "s", "r", "v", "/", "P", "u", "b", "l", "i", "c", "/", "i", "n", "d", "e", "x", ".", "h", "t", "m", "l">>)) :> File(<<>>)) @@
  (P(S(<<"/", "s", "r", "v", "/", "P", "u", "b", "l", "i", "c", "/", "b", ".", "e", "x", "e">>)) :> File(S(<<"x">>))) @@
  (P(S(<<"/", "s", "r", "v", "/", "P", "u", "b", "l", "i", "c", "/", "s", "u", "b">>)) :> File(S(<<"n", "o", "t", " ", "a", " ", "d", "i", "r", "e", "c", "t", "o", "r", "y">>))) @@
  (P(S(<<"/", "s", "r", "v", "/", "s", "e", "c", "r", "e", "t", ".", "h", "t", "m", "l">>)) :> Dir) @@
  (P(S(<<"/", "e", "t", "c">>)) :> Dir)

FileSystems == {SiteFiles, EmptyFiles, OddFiles}

(***************************************************************************)
(* TCPServer.start: the accept loop of the HTTPServer that __main__        *)
(* starts.  pc is the position in the loop; "terminated" is the state      *)
(* after an exception has left start, which ends the process.              *)
(***************************************************************************)
\* the number of connections a behaviour accepts
MaxConnections == 2

\* the size passed to recv
RecvSize == 1024

VARIABLES
  pc,        \* "accept", "recv", "handle", "send", "close" or "terminated"
  files,     \* the filesystem
  accepted,  \* the number of connections accepted so far; the current one has this number
  open,      \* the accepted connections that are not closed
  data,      \* the bytes recv returned on the current connection
  response,  \* what handle_request returned for data
  exc,       \* the exception raised inside the try block, "" when there is none
  sent,      \* the bytes written to the current connection
  recvs,     \* the number of recv calls on the current connection
  sends,     \* the number of sendall calls on the current connection
  self_headers, \* the value of the attribute headers of the server object
  fs_calls,  \* the filesystem calls handle_request made for the current connection
  answered   \* history: for every response written so far, its status code and
             \* whether a file was opened for it

vars == <<pc, files, accepted, open, data, response, exc, sent, recvs, sends,
          self_headers, fs_calls, answered>>

Init ==
  /\ pc = "accept"
  /\ files \in FileSystems
  /\ accepted = 0
  /\ open = {}
  /\ data = <<>>
  /\ response = <<>>
  /\ exc = ""
  /\ sent = <<>>
  /\ recvs = 0
  /\ sends = 0
  /\ self_headers = headers
  /\ fs_calls = <<>>
  /\ answered = {}

\* connection, address = sock.accept()
Accept ==
  /\ pc = "accept"
  /\ accepted < MaxConnections
  /\ accepted' = accepted + 1
  /\ open' = open \cup {accepted + 1}
  /\ data' = <<>>
  /\ response' = <<>>
  /\ exc' = ""
  /\ sent' = <<>>
  /\ recvs' = 0
  /\ sends' = 0
  /\ fs_calls' = <<>>
  /\ pc' = "recv"
  /\ UNCHANGED <<files, self_headers, answered>>

\* a recv that returns everything the client delivered
Recv_Unbounded(b) ==
  /\ pc = "recv"
  /\ data' = b
  /\ recvs' = recvs + 1
  /\ pc' = "handle"
  /\ UNCHANGED <<files, accepted, open, response, exc, sent, sends, self_headers, fs_calls, answered>>

\* data = connection.recv(1024), the client having delivered the bytes b
Recv(b) ==
  /\ pc = "recv"
  /\ data' = SubSeq(b, 1, IF Len(b) < RecvSize THEN Len(b) ELSE RecvSize)
  /\ recvs' = recvs + 1
  /\ pc' = "handle"
  /\ UNCHANGED <<files, accepted, open, response, exc, sent, sends, self_headers, fs_calls, answered>>

\* connection.recv raises (the peer reset the connection)
RecvError ==
  /\ pc = "recv"
  /\ recvs' = recvs + 1
  /\ exc' = "ConnectionResetError"
  /\ pc' = "close"
  /\ UNCHANGED <<files, accepted, open, data, response, sent, sends, self_headers, fs_calls, answered>>

\* response = self.handle_request(data), then the test of "if response"
Handle ==
  /\ pc = "handle"
  /\ \E r \in {handle_request(data, files, self_headers)} :
       /\ exc' = r.exc
       /\ response' = r.response
       /\ self_headers' = r.headers
       /\ fs_calls' = r.fs_calls
       /\ pc' = IF r.exc = "" /\ r.response # <<>> THEN "send" ELSE "close"
  /\ UNCHANGED <<files, accepted, open, data, sent, recvs, sends, answered>>

\* the status code a response starts with, 0 when it does not start with a
\* status line
StatusOf(r) ==
  IF Len(r) >= 12 /\ SubSeq(r, 1, 9) = S(<<"H", "T", "T", "P", "/", "1", ".", "1", " ">>)
     /\ \A i \in 10..12 : IsDigit(r[i])
  THEN DigitsValue(SubSeq(r, 10, 12), 0) ELSE 0

\* connection.sendall(response)
Send ==
  /\ pc = "send"
  /\ sent' = response
  /\ sends' = sends + 1
  /\ answered' = answered \cup {<<StatusOf(response), \E i \in DOMAIN fs_calls : fs_calls[i][1] = "open">>}
  /\ pc' = "close"
  /\ UNCHANGED <<files, accepted, open, data, response, exc, recvs, self_headers, fs_calls>>

\* connection.sendall raises after n bytes went out
SendError ==
  /\ pc = "send"
  /\ \E n \in {0, Len(response) \div 2} : sent' = SubSeq(response, 1, n)
  /\ sends' = sends + 1
  /\ exc' = "BrokenPipeError"
  /\ pc' = "close"
  /\ UNCHANGED <<files, accepted, open, data, response, recvs, self_headers, fs_calls, answered>>

\* a close that is skipped when an exception is on its way out
Close_OnSuccessOnly ==
  /\ pc = "close"
  /\ open' = IF exc = "" THEN open \ {accepted} ELSE open
  /\ pc' = IF exc = "" THEN "accept" ELSE "terminated"
  /\ UNCHANGED <<files, accepted, data, response, exc, sent, recvs, sends, self_headers, fs_calls, answered>>

\* the finally clause: connection.close(); an exception then leaves the
\* outer loop and start
Close ==
  /\ pc = "close"
  /\ open' = open \ {accepted}
  /\ pc' = IF exc = "" THEN "accept" ELSE "terminated"
  /\ UNCHANGED <<files, accepted, data, response, exc, sent, recvs, sends, self_headers, fs_calls, answered>>

Next ==
  \/ Accept
  \/ \E b \in Buffers : Recv(b)
  \/ RecvError
  \/ Handle
  \/ Send
  \/ SendError
  \/ Close

Spec == Init /\ [][Next]_vars

(***************************************************************************)
(* What a state shows of the current connection                            *)
(***************************************************************************)
\* handle_request has been called on data
Handled == pc \notin {"recv", "handle"} /\ recvs = 1 /\ exc # "ConnectionResetError"

\* it raised exc / it returned response
HandlerRaised == Handled /\ sends = 0 /\ exc # ""
HandlerReturned == Handled /\ ~HandlerRaised

Request == parse(data)

IsGet == Request.exc = "" /\ Request.method = S(<<"G", "E", "T">>) /\ Request.uri # None
IsPost == Request.exc = "" /\ Request.method = S(<<"P", "O", "S", "T">>)

\* the name a GET asks for and the path the server builds for it
Name == requested_name(Request.uri)
RequestedPath == path_join(base_directory, Name)

\* reading a response: the bytes after the first blank line, the values of the header lines with a given name
BodyOf(r) ==
  LET j == Find(r, CRLF \o CRLF)
  IN  IF j = 0 THEN <<>> ELSE SubSeq(r, j + 4, Len(r))

HeaderValues(r, name) ==
  LET j == Find(r, CRLF \o CRLF)
      head == IF j = 0 THEN r ELSE SubSeq(r, 1, j - 1)
      lines == Tail(bytes_split(head, CRLF))
      prefix == name \o S(<<":", " ">>)
      hits == SelectSeq(lines, LAMBDA l : Len(l) >= Len(prefix) /\ SubSeq(l, 1, Len(prefix)) = prefix)
  IN  [i \in DOMAIN hits |-> SubSeq(hits[i], Len(prefix) + 1, Len(hits[i]))]

RECURSIVE normalize(_, _)
\* the components of a relative path with its '..' components resolved
normalize(parts, acc) ==
  IF parts = <<>> THEN acc
  ELSE IF Head(parts) = <<46, 46>> /\ acc # <<>> /\ acc[Len(acc)] # <<46, 46>>
    THEN normalize(Tail(parts), SubSeq(acc, 1, Len(acc) - 1))
  ELSE normalize(Tail(parts), Append(acc, Head(parts)))

\* a relative name whose path stays below the base directory once resolved
InsideBase(name) ==
  /\ path_root(name) = 0
  /\ LET n == normalize(base_directory.parts \o path_parts(name), <<>>)
     IN  Len(n) >= 1 /\ n[1] = base_directory.parts[1]

\* a relative name with '..' components whose path leaves the base directory
TraversesOutside(name) ==
  /\ path_root(name) = 0
  /\ \E i \in DOMAIN path_parts(name) : path_parts(name)[i] = <<46, 46>>
  /\ ~InsideBase(name)

(***************************************************************************)
(* C1                                                                      *)
(***************************************************************************)
\* C1: a GET whose percent-decoded URI has '..' segments that lead outside the
\* base directory is answered 403, whatever the extension of the name and
\* whether or not the target exists.
C1_TraversalIs403 ==
  (Handled /\ IsGet /\ TraversesOutside(Name))
    => (HandlerReturned /\ StatusOf(response) = 403)

(***************************************************************************)
(* C2                                                                      *)
(***************************************************************************)
Response501 ==
  S(<<"H", "T", "T", "P", "/", "1", ".", "1", " ", "5", "0", "1", " ", "N", "o", "t", " ", "I", "m", "p", "l", "e", "m", "e", "n", "t", "e", "d">>) \o CRLF \o S(<<"S", "e", "r", "v", "e", "r", ":", " ", "C", "r", "u", "d", "e", " ", "S", "e", "r", "v", "e", "r">>) \o CRLF
  \o S(<<"C", "o", "n", "t", "e", "n", "t", "-", "T", "y", "p", "e", ":", " ", "t", "e", "x", "t", "/", "h", "t", "m", "l">>) \o CRLF \o CRLF \o S(<<"<", "h", "1", ">", "5", "0", "1", " ", "N", "o", "t", " ", "I", "m", "p", "l", "e", "m", "e", "n", "t", "e", "d", "<", "/", "h", "1", ">">>)

\* C2: a request that parses and whose method token is neither GET nor POST
\* is answered by the default handler: status 501 and the body
\* <h1>501 Not Implemented</h1>.
C2_OtherMethodsGet501 ==
  (Handled /\ Request.exc = "" /\ Request.method \notin {S(<<"G", "E", "T">>), S(<<"P", "O", "S", "T">>)})
    => (HandlerReturned /\ response = Response501)

(***************************************************************************)
(* C3                                                                      *)
(***************************************************************************)
\* C3: no request-level error and no socket error ends the accept loop: the
\* server never reaches the state in which start has been left.
C3_AcceptLoopNeverEnds == pc # "terminated"

(***************************************************************************)
(* C4                                                                      *)
(***************************************************************************)
\* C4: a connection is closed on every exit path of its handling and before
\* the next accept: at most one connection is open, and none is open when the
\* server is about to accept or has terminated.
C4_ConnectionsClosed ==
  /\ Cardinality(open) <= 1
  /\ pc \in {"accept", "terminated"} => open = {}

\* a second connection whose handling ended in an exception, now closed
C4_Witness ==
  /\ pc = "terminated"
  /\ accepted = 2
  /\ exc # ""
  /\ open = {}

(***************************************************************************)
(* C5                                                                      *)
(***************************************************************************)
\* C5: when recv returned no data, nothing is written to the connection.
C5_NoDataNoWrite ==
  (Handled /\ data = <<>>) => sent = <<>>

(***************************************************************************)
(* C6                                                                      *)
(***************************************************************************)
\* the entry a GET names, for a name the kernel can resolve
Target == resolve(files, RequestedPath)
NamesFile == Target # ENOENT /\ Target # <<>> /\ files[Target].kind = "file"

\* C6: a GET of a name inside the base directory that is allow-listed and
\* exists as a file is answered 200, with one Content-Length header whose
\* value is the byte length of the file and with the bytes of the file as body.
C6_FileServed ==
  (Handled /\ IsGet /\ InsideBase(Name) /\ is_an_allowed_file(Name) /\ NamesFile)
    => /\ HandlerReturned
       /\ StatusOf(response) = 200
       /\ LET cl == HeaderValues(response, S(<<"C", "o", "n", "t", "e", "n", "t", "-", "L", "e", "n", "g", "t", "h">>))
          IN  /\ Len(cl) = 1
              /\ py_int(cl[1]).exc = ""
              /\ py_int(cl[1]).val = Len(files[Target].content)
       /\ BodyOf(response) = files[Target].content

\* a file of more than 99 bytes, some of them not text, has been served
C6_Witness ==
  /\ Handled /\ IsGet /\ InsideBase(Name) /\ is_an_allowed_file(Name) /\ NamesFile
  /\ Len(files[Target].content) > 99
  /\ sent = response
  /\ sent # <<>>

(***************************************************************************)
(* C7                                                                      *)
(***************************************************************************)
\* C7: for a GET of a name that passes the containment check the allow-list
\* decides first and existence second: a name that is not allow-listed gets
\* 403; an allow-listed name gets 404 exactly when nothing exists at its path
\* and 200 exactly when something does.
C7_AllowListThenExistence ==
  (Handled /\ IsGet /\ is_relative_to(RequestedPath, base_directory))
    => /\ HandlerReturned
       /\ ~is_an_allowed_file(Name) => StatusOf(response) = 403
       /\ is_an_allowed_file(Name) =>
            /\ StatusOf(response) = 404 <=> ~path_exists(files, RequestedPath)
            /\ StatusOf(response) = 200 <=> path_exists(files, RequestedPath)

(***************************************************************************)
(* C8                                                                      *)
(***************************************************************************)
\* the Content-Length of a POST: the header parsed by int, 0 without header
HasLength == S(<<"C", "o", "n", "t", "e", "n", "t", "-", "L", "e", "n", "g", "t", "h">>) \in DOMAIN Request.headers
Length == IF HasLength THEN py_int(Request.headers[S(<<"C", "o", "n", "t", "e", "n", "t", "-", "L", "e", "n", "g", "t", "h">>)]) ELSE [exc |-> "", val |-> 0]

\* the first n bytes of b, all of b when it is shorter, nothing for n <= 0
FirstBytes(b, n) == SubSeq(b, 1, IF n < Len(b) THEN n ELSE Len(b))

\* C8: a POST whose Content-Length parses to n (0 without the header), and
\* whose first n body bytes are text, is answered 200 with exactly the first
\* n bytes of the request body as body, never more than n bytes.
C8_PostEchoesFirstBytes ==
  (Handled /\ IsPost /\ Length.exc = ""
     /\ bytes_decode(FirstBytes(Request.body, Length.val)).exc = "")
    => /\ HandlerReturned
       /\ StatusOf(response) = 200
       /\ BodyOf(response) = FirstBytes(Request.body, Length.val)
       /\ Len(BodyOf(response)) <= Length.val

(***************************************************************************)
(* C9                                                                      *)
(***************************************************************************)
\* C9: every POST request is answered 200; the POST handler never ends in an
\* exception.
C9_PostAlways200 ==
  (Handled /\ IsPost) => (HandlerReturned /\ StatusOf(response) = 200)

(***************************************************************************)
(* C10                                                                     *)
(***************************************************************************)
\* the buffer has no empty line after its request line
NoSeparator(b) == \A i \in 2..Len(bytes_split(b, CRLF)) : bytes_split(b, CRLF)[i] # <<>>

\* the request line of the buffer is text
RequestLineDecodes(b) == bytes_decode(bytes_split(b, CRLF)[1]).exc = ""

\* C10: the parser ends in a defined outcome for every buffer whose request
\* line is text: no exception of the parser reaches the accept loop, and a
\* buffer without an empty line after the request line parses with an empty
\* body.
C10_ParserNeverRaises ==
  (Handled /\ RequestLineDecodes(data))
    => /\ Request.exc = ""
       /\ NoSeparator(data) => Request.body = <<>>

(***************************************************************************)
(* C11                                                                     *)
(***************************************************************************)
\* what handle_request did on the current connection: the exception it
\* raised or the bytes it returned
Outcome == [exc |-> IF HandlerRaised THEN exc ELSE "", response |-> response]
OutcomeOf(r) == [exc |-> r.exc, response |-> r.response]

\* the current request with another URI
WithUri(uri) == [Request EXCEPT !.uri = uri]

\* C11: a GET whose URI is empty or '/' is answered exactly as the GET of
\* '/home.html' with the same headers and body is on the same filesystem:
\* same status, same headers, same body (or the same failure).
C11_RootIsHomePage ==
  (Handled /\ IsGet /\ Request.uri \in {<<>>, S(<<"/">>)})
    => Outcome = OutcomeOf(handle_GET(WithUri(S(<<"/", "h", "o", "m", "e", ".", "h", "t", "m", "l">>)), files, headers))

\* a GET with an empty URI that was answered with the home page
C11_Witness ==
  /\ Handled /\ IsGet /\ Request.uri = <<>>
  /\ StatusOf(response) = 200
  /\ BodyOf(response) = files[cwd \o <<S(<<"P", "u", "b", "l", "i", "c">>), S(<<"h", "o", "m", "e", ".", "h", "t", "m", "l">>)>>].content
  /\ sent = response

(***************************************************************************)
(* C12                                                                     *)
(***************************************************************************)
StartsWith(r, p) == Len(r) >= Len(p) /\ SubSeq(r, 1, Len(p)) = p

StatusLines ==
  { S(<<"H", "T", "T", "P", "/", "1", ".", "1", " ", "2", "0", "0", " ", "O", "K">>) \o CRLF, S(<<"H", "T", "T", "P", "/", "1", ".", "1", " ", "4", "0", "3", " ", "F", "o", "r", "b", "i", "d", "d", "e", "n">>) \o CRLF,
    S(<<"H", "T", "T", "P", "/", "1", ".", "1", " ", "4", "0", "4", " ", "N", "o", "t", " ", "F", "o", "u", "n", "d">>) \o CRLF, S(<<"H", "T", "T", "P", "/", "1", ".", "1", " ", "5", "0", "1", " ", "N", "o", "t", " ", "I", "m", "p", "l", "e", "m", "e", "n", "t", "e", "d">>) \o CRLF }

\* C12: every response handle_request returns, and every response written
\* to a connection, starts with the status line of 200, 403, 404 or 501 with
\* the phrase of the table.
C12_StatusLine ==
  /\ HandlerReturned => \E l \in StatusLines : StartsWith(response, l)
  /\ (sends = 1 /\ exc = "") => \E l \in StatusLines : StartsWith(sent, l)

\* the bare 403 line has been written to the second connection, after a
\* response with another status code on the first
C12_Witness ==
  /\ sends = 1 /\ exc = ""
  /\ accepted = 2
  /\ sent = S(<<"H", "T", "T", "P", "/", "1", ".", "1", " ", "4", "0", "3", " ", "F", "o", "r", "b", "i", "d", "d", "e", "n">>) \o CRLF
  /\ \E a \in answered : a[1] \in {200, 404, 501}

(***************************************************************************)
(* C13                                                                     *)
(***************************************************************************)
\* a file was opened for the response of the current connection
FileOpened == \E i \in DOMAIN fs_calls : fs_calls[i][1] = "open"

\* C13: no request changes the configuration: the attribute headers keeps
\* its startup value, the response to a request is the one a server that has
\* served nothing gives for the same bytes and filesystem, and a response
\* for which no file was read carries no Content-Length and no Content-Type
\* other than the base one, whatever was served before.
C13_ConfigurationUnchanged ==
  /\ self_headers = headers
  /\ HandlerReturned => response = handle_request(data, files, headers).response
  /\ (HandlerReturned /\ ~FileOpened) =>
       /\ HeaderValues(response, S(<<"C", "o", "n", "t", "e", "n", "t", "-", "L", "e", "n", "g", "t", "h">>)) = <<>>
       /\ \A i \in DOMAIN HeaderValues(response, S(<<"C", "o", "n", "t", "e", "n", "t", "-", "T", "y", "p", "e">>)) :
            HeaderValues(response, S(<<"C", "o", "n", "t", "e", "n", "t", "-", "T", "y", "p", "e">>))[i] = S(<<"t", "e", "x", "t", "/", "h", "t", "m", "l">>)

\* a response without file, written on the connection that follows one on
\* which a file was served with its own Content-Type and Content-Length
C13_Witness ==
  /\ accepted = 2
  /\ <<200, TRUE>> \in answered
  /\ HandlerReturned /\ ~FileOpened
  /\ StatusOf(response) \in {403, 404, 501}
  /\ HeaderValues(response, S(<<"C", "o", "n", "t", "e", "n", "t", "-", "T", "y", "p", "e">>)) = <<S(<<"t", "e", "x", "t", "/", "h", "t", "m", "l">>)>>
  /\ sends = 1 /\ sent = response

(***************************************************************************)
(* C14                                                                     *)
(***************************************************************************)
\* C14: on every connection there is exactly one recv, of at most 1024
\* bytes, and at most one sendall; the sendall comes after the recv and
\* before the close, and nothing is read or written besides.
C14_OneReadOneWrite ==
  /\ [](/\ recvs <= 1 /\ sends <= 1
        /\ Len(data) <= RecvSize
        /\ pc = "recv" => (recvs = 0 /\ sends = 0)
        /\ pc \in {"handle", "send", "close"} => recvs = 1
        /\ (pc \in {"accept", "terminated"} /\ accepted > 0) => recvs = 1
        /\ sends = 1 => (recvs = 1 /\ pc \in {"close", "accept", "terminated"})
        /\ sent # <<>> => sends = 1)
  /\ [][/\ recvs' > recvs => (pc = "recv" /\ accepted \in open /\ sends = 0)
        /\ sends' > sends => (pc = "send" /\ accepted \in open /\ recvs = 1)
        /\ data' # data => (recvs' > recvs \/ pc = "accept")
        /\ sent' # sent => (sends' > sends \/ pc = "accept")]_vars

\* a connection on which the client delivered more than 1024 bytes: one
\* recv of 1024 bytes, one response written, the connection closed
C14_Witness ==
  /\ pc = "accept" /\ accepted > 0 /\ open = {}
  /\ Len(data) = RecvSize
  /\ recvs = 1 /\ sends = 1
  /\ sent = response /\ sent # <<>>

(***************************************************************************)
(* C15                                                                     *)
(***************************************************************************)
\* the request line of the buffer is one token
OneToken(b) == Len(bytes_split(bytes_split(b, CRLF)[1], SP)) = 1

\* C15: a GET whose request line has no second token parses to a request
\* whose uri is the empty string, not a null value, and is handled as the
\* GET with an empty URI is.
C15_MissingUriIsEmpty ==
  (Handled /\ OneToken(data) /\ Request.exc = "" /\ Request.method = S(<<"G", "E", "T">>))
    => /\ Request.uri = <<>>
       /\ Outcome = OutcomeOf(handle_GET(WithUri(<<>>), files, headers))

(***************************************************************************)
(* C16                                                                     *)
(***************************************************************************)
RECURSIVE absolute(_, _)
\* the location a path names from the directory acc: '..' is the parent, the
\* root is its own parent
absolute(parts, acc) ==
  IF parts = <<>> THEN acc
  ELSE IF Head(parts) = <<46, 46>>
    THEN absolute(Tail(parts), IF acc = <<>> THEN <<>> ELSE SubSeq(acc, 1, Len(acc) - 1))
  ELSE absolute(Tail(parts), Append(acc, Head(parts)))

Location(p) == absolute(p.parts, IF p.root > 0 THEN <<>> ELSE cwd)

\* the path names a location that is not the base directory or below it
OutsideBase(p) ==
  ~StartsWith(Location(p), Location(base_directory))

\* C16: a GET whose candidate path is not inside the base directory is
\* answered 403, whether the name is allow-listed or not and whether the
\* target exists or not, and without any call on the filesystem.
C16_ContainmentFirst ==
  (Handled /\ IsGet /\ OutsideBase(RequestedPath))
    => /\ HandlerReturned
       /\ StatusOf(response) = 403
       /\ fs_calls = <<>>

(***************************************************************************)
(* C17                                                                     *)
(***************************************************************************)
\* a status line, header lines with Server and Content-Type among them, a
\* blank line, then the body
Complete(r) ==
  /\ \E l \in StatusLines : StartsWith(r, l)
  /\ Find(r, CRLF \o CRLF) # 0
  /\ HeaderValues(r, S(<<"S", "e", "r", "v", "e", "r">>)) # <<>>
  /\ HeaderValues(r, S(<<"C", "o", "n", "t", "e", "n", "t", "-", "T", "y", "p", "e">>)) # <<>>

\* C17: whatever sendall has written to a connection is a complete
\* response.
C17_CompleteResponse ==
  (sends = 1 /\ exc = "") => Complete(sent)

(***************************************************************************)
(* C18                                                                     *)
(***************************************************************************)
\* s without its first character when that is a slash
WithoutLeadingSlash(s) == IF s # <<>> /\ s[1] = 47 THEN Tail(s) ELSE s

\* the name as stated: the percent-decoded URI with one leading slash
\* removed, the default document when that is empty
DecodedName(uri) == or_homepage(WithoutLeadingSlash(unquote(uri)))

\* C18: the name a GET resolves is the percent-decoded URI with exactly one
\* leading slash removed and nothing else, and the request is answered as
\* for that name: further leading slashes and trailing slashes are kept.
C18_OneLeadingSlash ==
  (Handled /\ IsGet)
    => /\ Name = DecodedName(Request.uri)
       /\ Outcome = OutcomeOf(serve_name(DecodedName(Request.uri), files, headers))

(***************************************************************************)
(* C19                                                                     *)
(***************************************************************************)
\* the lines of the buffer after the request line and before the first empty
\* line
HeaderLines(b) ==
  LET ls == Tail(bytes_split(b, CRLF))
      blank == {i \in DOMAIN ls : ls[i] = <<>>}
  IN  IF blank = {} THEN ls ELSE SubSeq(ls, 1, Min(blank) - 1)

\* a line up to its first ': ' and after it, as text
KeyOf(l) == bytes_decode(SubSeq(l, 1, Find(l, S(<<":", " ">>)) - 1)).val
ValueOf(l) == bytes_decode(SubSeq(l, Find(l, S(<<":", " ">>)) + 2, Len(l))).val

\* C19: for a buffer that parses, the headers are the header lines split at
\* their first ': ', the last line of a name giving its value, and the body
\* is the bytes of the buffer after the first empty line.
C19_HeadersAndBody ==
  (Handled /\ Request.exc = "")
    => LET hl == HeaderLines(data)
       IN  /\ DOMAIN Request.headers = {KeyOf(hl[i]) : i \in DOMAIN hl}
           /\ \A i \in DOMAIN hl :
                (\A j \in DOMAIN hl : j > i => KeyOf(hl[j]) # KeyOf(hl[i]))
                  => Request.headers[KeyOf(hl[i])] = ValueOf(hl[i])
           /\ Request.body = BodyOf(data)

\* a parsed buffer with a value that holds ': ', a repeated name and a body
\* of several lines
C19_Witness ==
  /\ Handled /\ Request.exc = ""
  /\ \E i \in DOMAIN HeaderLines(data) : Find(ValueOf(HeaderLines(data)[i]), S(<<":", " ">>)) # 0
  /\ \E i, j \in DOMAIN HeaderLines(data) :
       i < j /\ KeyOf(HeaderLines(data)[i]) = KeyOf(HeaderLines(data)[j])
  /\ Find(Request.body, CRLF) # 0
  /\ sent = response /\ sent # <<>>

(***************************************************************************)
(* C20                                                                     *)
(***************************************************************************)
\* the buffer is not empty and its request line starts with a space or is
\* empty: the method token is empty
EmptyMethod(b) == b # <<>> /\ (b[1] = 32 \/ StartsWith(b, CRLF))

\* C20: a non-empty buffer whose method token is empty is answered with the
\* 501 response; its handling does not raise.
C20_EmptyMethodIs501 ==
  (Handled /\ EmptyMethod(data)) => (HandlerReturned /\ response = Response501)

====
